---- MODULE Spec2Model ----
(***************************************************************************)
(* Project Sentinel screening client: the search-and-drill-down workflow.  *)
(*                                                                         *)
(* Three entry implementations live in the repository and are modelled     *)
(* side by side; `impl` says which one the page runs:                      *)
(*   "App"    dashboard-ui/src/App.js          + components/SearchResults  *)
(*   "Legacy" the second App component (unnamed/part_000) + SearchResults  *)
(*   "Html"   index.html, the script-only page (performScreen)             *)
(*                                                                         *)
(* Every handler runs to its first await as one step; the continuation     *)
(* after the await (try / catch / finally) is one step per response.       *)
(* Responses of outstanding requests are delivered in any order.           *)
(***************************************************************************)
EXTENDS Naturals, Sequences, FiniteSets

(* ------------------------------ bounds --------------------------------- *)
\* requests issued per run, screen and fetchEntity together
MaxRequests == 3

(* ------------------------------ values --------------------------------- *)
\* " " stands for every whitespace character String.prototype.trim removes
Whitespace == {" "}

\* the texts the user types: empty, whitespace only, a name, and the name with
\* whitespace before it, after it and on both sides
Inputs ==
  {<<>>, <<" ">>, <<"a">>, <<" ", "a">>, <<"a", " ">>, <<" ", "a", " ">>}

RECURSIVE TrimStart(_)
TrimStart(s) ==
  IF s # <<>> /\ Head(s) \in Whitespace THEN TrimStart(Tail(s)) ELSE s

RECURSIVE TrimEnd(_)
TrimEnd(s) ==
  IF s # <<>> /\ s[Len(s)] \in Whitespace THEN TrimEnd(SubSeq(s, 1, Len(s) - 1)) ELSE s

\* String.prototype.trim
Trim(s) == TrimEnd(TrimStart(s))

\* `!text`: the empty string is the only falsy string
Falsy(s) == s = <<>>

\* a property the payload does not carry reads as undefined
Undefined == "undefined"
\* useState(null) / setError(null)
Null == "null"
\* `x || y` on two payload fields
OrElse(x, y) == IF x \in {Undefined, Null, ""} THEN y ELSE x
\* `value && <element>` on a message state
Truthy(x) == x \notin {Undefined, Null, ""}

\* identifiers the backend uses
Idents == {"E1", "E2"}
\* longest match list a response carries: every entity once
MaxMatches == Cardinality(Idents)
\* a match of POST /v1/screen carries its identifier under `id` or `entity_id`
MatchPool ==
  {[id |-> v, entity_id |-> Undefined] : v \in Idents}
    \cup {[id |-> Undefined, entity_id |-> v] : v \in Idents}

RECURSIVE MatchListsUpTo(_)
MatchListsUpTo(n) ==
  IF n = 0 THEN {<<>>}
  ELSE LET shorter == MatchListsUpTo(n - 1)
       IN  shorter \cup
             {Append(s, m) : s \in {t \in shorter : Len(t) = n - 1},
                             m \in MatchPool}

\* the identifier of a match, whichever field holds it
IdentOf(m) == IF m.id = Undefined THEN m.entity_id ELSE m.id

\* match lists of a response: each entity at most once, in the backend's order
MatchLists ==
  {s \in MatchListsUpTo(MaxMatches) :
     \A i, j \in 1..Len(s) : i # j => IdentOf(s[i]) # IdentOf(s[j])}

\* the body of a successful response of POST /v1/screen: the backend counts the
\* matches it returns
ScreeningResult(ms) == [kind |-> "ok", total_matches |-> Len(ms), matches |-> ms]

\* what the transport delivers for a screen request: a 2xx body, a non-2xx
\* status, or no response at all (network failure)
ScreenResponses ==
  {ScreeningResult(ms) : ms \in MatchLists}
    \cup {[kind |-> k, total_matches |-> 0, matches |-> <<>>] : k \in {"status", "network"}}

\* what the transport delivers for GET /v1/entity/{identifier}
EntityResponses(ident) ==
  {[kind |-> "ok", data |-> [id |-> ident]]}
    \cup {[kind |-> k, data |-> [id |-> ident]] : k \in {"status", "network"}}

\* variant: a non-2xx status resolves the promise (validateStatus accepting all)
AxiosRejects_NetworkOnly(resp) == resp.kind = "network"

\* axios rejects on a network failure and on every non-2xx status
AxiosRejects(resp) == resp.kind # "ok"

\* an exception leaves the async handler unless the statement that threw is
\* inside a try block with a catch clause
Escapes(insideTry) == ~insideTry

VARIABLES
  impl,            \* which entry implementation the page runs
  searchTerm,      \* text of the input box (searchTerm / query / #entity-name)
  results,         \* useState([]): the held match sequence
  loading,         \* useState(false)
  error,           \* useState('') in App.js, useState(null) in the second App
  searched,        \* useState(false)
  screenReqs,      \* ids of the outstanding POST /v1/screen requests
  nScreen,         \* screen requests issued so far; the newest has this id
  posted,          \* body.entity_name of the newest screen request, <<>> before the first
  resultsDiv,      \* index.html: content of <div id="results">
  selectedEntity,  \* SearchResults: useState(null), <<>> or <<profile>>
  dLoading,        \* SearchResults: loading
  dError,          \* SearchResults: error
  fetchReqs,       \* outstanding GET /v1/entity requests
  nFetch,          \* fetchEntity requests issued so far
  uncaught,        \* an exception left a handler
  event,           \* history: the handler step taken last
  intents,         \* history: accepted submit and select intents
  origin,          \* history: which parts of the loader state date from before the newest submit
  prior            \* history: the outcome of the search answered last, where recorded

session == <<results, loading, error, searched>>
detail == <<selectedEntity, dLoading, dError>>
history == <<event, intents, origin, prior>>
vars == <<impl, searchTerm, results, loading, error, searched, screenReqs, nScreen, posted,
          resultsDiv, selectedEntity, dLoading, dError, fetchReqs, nFetch,
          uncaught, event, intents, origin, prior>>

Impls == {"App", "Legacy", "Html"}

\* the initial value of the error state: '' in App.js, null in the second App
\* the step taken last: which handler or which response, and for a response of
\* fetchEntity whether the component that asked for it is still mounted
Event(what, kind, live) ==
  [what |-> what, kind |-> kind, live |-> live, matches |-> <<>>]

\* history: a screen request was answered; the matches the response carried
Answered(resp) == [Event("screen", resp.kind, TRUE) EXCEPT !.matches = resp.matches]

NoError(i) == IF i = "App" THEN "" ELSE Null

\* nothing held by the loader predates the newest submit
NoOrigin == [profile |-> FALSE, error |-> FALSE, loading |-> FALSE]

\* the page as loaded: useState's initial values, nothing sent
PageLoad ==
  /\ impl \in Impls
  /\ searchTerm = <<>>
  /\ results = <<>>
  /\ loading = FALSE
  /\ error = NoError(impl)
  /\ searched = FALSE
  /\ screenReqs = {}
  /\ nScreen = 0
  /\ posted = <<>>
  /\ resultsDiv = [view |-> "empty", cards |-> <<>>]
  /\ selectedEntity = <<>>
  /\ dLoading = FALSE
  /\ dError = Null
  /\ fetchReqs = {}
  /\ nFetch = 0
  /\ uncaught = FALSE
  /\ event = Event("load", "", TRUE)
  /\ intents = [submit |-> 0, select |-> 0]
  /\ origin = NoOrigin

\* history: no outcome is held; `on` says whether outcomes are recorded
NoOutcome(on) == [on |-> on, held |-> <<>>]

Init == PageLoad /\ prior = NoOutcome(FALSE)

\* the same page, with the outcomes of its searches recorded
InitRecording == PageLoad /\ prior = NoOutcome(TRUE)

(* --------------------------- rendering --------------------------------- *)
\* variant: <SearchResults results={results} /> rendered unconditionally
App_MountsSearchResults_Always == TRUE

\* variant: {!loading && results.length > 0 && <SearchResults/>}
App_MountsSearchResults_IgnoresError == ~loading /\ Len(results) > 0

\* App.js 71-73: {!loading && !error && results.length > 0 && <SearchResults/>}
App_MountsSearchResults == ~loading /\ ~Truthy(error) /\ Len(results) > 0

\* second App 91: {results.length > 0 && <SearchResults results={results} />}
Legacy_MountsSearchResults == Len(results) > 0

\* whether the SearchResults component (the match list and the loader) is on screen
ShowsMatchList ==
  CASE impl = "App" -> App_MountsSearchResults
    [] impl = "Legacy" -> Legacy_MountsSearchResults
    [] OTHER -> resultsDiv.view = "cards"

\* the match summaries on screen, in order
DisplayedMatches ==
  CASE impl = "Html" -> resultsDiv.cards
    [] OTHER -> IF ShowsMatchList THEN results ELSE <<>>

ShowsLoading == IF impl = "Html" THEN resultsDiv.view = "loading" ELSE loading
ShowsError == IF impl = "Html" THEN resultsDiv.view = "error" ELSE Truthy(error)

\* App.js 67-69 / second App 88-90 / index.html 57-58
ShowsNoMatches ==
  CASE impl = "App" -> ~loading /\ ~Truthy(error) /\ searched /\ Len(results) = 0
    [] impl = "Legacy" -> searched /\ ~loading /\ Len(results) = 0
    [] OTHER -> resultsDiv.view = "none"

\* SearchResults.jsx 69-75
ShowsDetailLoading == ShowsMatchList /\ impl # "Html" /\ dLoading
ShowsDetailError == ShowsMatchList /\ impl # "Html" /\ Truthy(dError)
ShowsProfile == ShowsMatchList /\ impl # "Html" /\ selectedEntity # <<>>

\* history: on a submit, the fetchEntity requests still outstanding become
\* requests of selections made before the newest submit
Aged(reqs) ==
  IF nScreen' = nScreen THEN reqs ELSE {[r EXCEPT !.old = TRUE] : r \in reqs}

\* A component that leaves the tree loses its state, and the setState calls of
\* its pending continuations do nothing; a later mount starts from useState's
\* initial values (SearchResults.jsx 31-33).
Unmount ==
  /\ selectedEntity' = <<>>
  /\ dLoading' = FALSE
  /\ dError' = Null
  /\ fetchReqs' = {[r EXCEPT !.live = FALSE] : r \in Aged(fetchReqs)}
  /\ origin' = NoOrigin

\* the re-render that follows a state change of the App component
Rerender ==
  IF ShowsMatchList'
  THEN /\ UNCHANGED <<selectedEntity, dLoading, dError>>
       /\ fetchReqs' = Aged(fetchReqs)
       /\ origin' = IF nScreen' = nScreen THEN origin
                    ELSE [profile |-> selectedEntity # <<>>,
                          error |-> Truthy(dError),
                          loading |-> dLoading]
  ELSE Unmount

(* ----------------------- the input box (all pages) ---------------------- *)
\* onChange={(e) => setSearchTerm(e.target.value)}; typing into #entity-name
onChange(text) ==
  /\ searchTerm' = text
  /\ UNCHANGED <<impl, event, results, loading, error, searched, screenReqs, nScreen, posted, resultsDiv,
                 selectedEntity, dLoading, dError, fetchReqs, nFetch, uncaught,
                 intents, origin, prior>>

\* the handler returned at its guard: nothing was set, nothing was sent
ReturnsEarly ==
  /\ event' = Event("rejected", "", TRUE)
  /\ UNCHANGED <<impl, searchTerm, results, loading, error, searched, screenReqs, nScreen, posted,
                 resultsDiv, selectedEntity, dLoading, dError, fetchReqs, nFetch,
                 uncaught, intents, origin, prior>>

\* axios.post(`${API_BASE_URL}/v1/screen`, { entity_name: ... }): one request
PostScreen(entityName) ==
  /\ nScreen' = nScreen + 1
  /\ screenReqs' = screenReqs \cup {nScreen + 1}
  /\ posted' = <<entityName>>
  /\ prior' = IF screenReqs = {} /\ posted = <<entityName>> THEN prior
              ELSE NoOutcome(prior.on)

\* history: what the page holds and shows once the response is applied
Outcome(resp) ==
  [matches |-> resp.matches, session |-> session', resultsDiv |-> resultsDiv',
   shown |-> DisplayedMatches']

\* history: the outcome of the newest search is remembered when its successful
\* response is applied, until a submit of another text, a submit made while a
\* request is outstanding, or another response
Remembered(r, resp) ==
  prior' = IF prior.on /\ resp.kind = "ok" /\ r = nScreen
           THEN [prior EXCEPT !.held = <<Outcome(resp)>>]
           ELSE NoOutcome(prior.on)

\* the response of request r has arrived: r is no longer outstanding
ScreenSettled(r, resp) ==
  /\ screenReqs' = screenReqs \ {r}
  /\ event' = Answered(resp)
  /\ UNCHANGED <<nScreen, posted, intents>>

(* ------------------------------ App.js --------------------------------- *)
App_SearchFailed == "Search failed. Please check the connection and try again."

\* variant: if (!searchTerm) return;
App_Rejects_NoTrim(text) == Falsy(text)

\* App.js 19: if (!searchTerm.trim()) return;
App_Rejects(text) == Falsy(Trim(text))

\* App.js 18-30: handleSearch up to the await
App_handleSearch ==
  IF App_Rejects(searchTerm) THEN ReturnsEarly
  ELSE /\ nScreen + nFetch < MaxRequests
       /\ loading' = TRUE
       /\ error' = ""
       /\ results' = <<>>
       /\ searched' = TRUE
       /\ PostScreen(searchTerm)
       /\ intents' = [intents EXCEPT !.submit = @ + 1]
       /\ event' = Event("submit", "", TRUE)
       /\ UNCHANGED <<impl, searchTerm, resultsDiv, nFetch, uncaught>>
       /\ Rerender

\* App.js 58: <button onClick={handleSearch} disabled={loading}>
App_ClickScan ==
  /\ impl = "App"
  /\ ~loading
  /\ App_handleSearch

\* App.js 40-44: handleKeyPress, Enter in the input box
App_handleKeyPress ==
  /\ impl = "App"
  /\ App_handleSearch

\* variant: setResults(prev => [...prev, ...response.data.matches])
App_MatchesOf_Appended(resp) == results \o resp.matches

\* App.js 31: response.data.matches || [] (an array, even an empty one, is truthy)
App_MatchesOf(resp) == resp.matches

\* App.js 26-32: the awaited request is inside try { } catch (err) { }
App_AwaitInsideTry == TRUE

\* variant: the profile of the first match is fetched as soon as the matches
\* arrive (a prefetch in an effect of the mounted list)
App_screenFulfilled_Prefetches(r, resp) ==
  /\ impl = "App"
  /\ ~AxiosRejects(resp)
  /\ results' = App_MatchesOf(resp)
  /\ loading' = FALSE
  /\ ScreenSettled(r, resp)
  /\ IF Len(resp.matches) > 0 /\ nScreen + nFetch < MaxRequests
     THEN /\ nFetch' = nFetch + 1
          /\ fetchReqs' = fetchReqs \cup
               {[id |-> nFetch + 1, entityId |-> IdentOf(resp.matches[1]),
                 live |-> TRUE, old |-> FALSE]}
          /\ dLoading' = TRUE
          /\ UNCHANGED <<selectedEntity, dError, origin>>
     ELSE UNCHANGED <<nFetch, fetchReqs, selectedEntity, dLoading, dError, origin>>
  /\ UNCHANGED <<impl, searchTerm, error, searched, resultsDiv, uncaught>>
  /\ Remembered(r, resp)

\* App.js 31, 35-37: the request resolved; try body, then finally
App_screenFulfilled(r, resp) ==
  /\ impl = "App"
  /\ ~AxiosRejects(resp)
  /\ results' = App_MatchesOf(resp)
  /\ loading' = FALSE
  /\ ScreenSettled(r, resp)
  /\ UNCHANGED <<impl, searchTerm, error, searched, resultsDiv, nFetch, uncaught>>
  /\ Rerender
  /\ Remembered(r, resp)

\* App.js 32-34: what the catch block does to the error state
App_Catch(err) == App_SearchFailed

\* variant: the catch block sends the request again instead of reporting
App_screenRejected_Retries(r, resp) ==
  /\ impl = "App"
  /\ AxiosRejects(resp)
  /\ nScreen + nFetch < MaxRequests
  /\ nScreen' = nScreen + 1
  /\ screenReqs' = (screenReqs \ {r}) \cup {nScreen + 1}
  /\ event' = Event("screen", resp.kind, TRUE)
  /\ UNCHANGED <<impl, searchTerm, results, loading, error, searched, posted, resultsDiv,
                 selectedEntity, dLoading, dError, fetchReqs, nFetch, uncaught,
                 intents, origin>>
  /\ Remembered(r, resp)

\* variant: no finally block, loading is cleared in the try body only
App_screenRejected_NoFinally(r, resp) ==
  /\ impl = "App"
  /\ AxiosRejects(resp)
  /\ error' = App_Catch(resp)
  /\ ScreenSettled(r, resp)
  /\ uncaught' = (uncaught \/ Escapes(App_AwaitInsideTry))
  /\ UNCHANGED <<impl, searchTerm, results, loading, searched, resultsDiv, nFetch>>
  /\ Rerender
  /\ Remembered(r, resp)

App_screenRejected(r, resp) ==
  /\ impl = "App"
  /\ AxiosRejects(resp)
  /\ error' = App_Catch(resp)
  /\ loading' = FALSE
  /\ ScreenSettled(r, resp)
  /\ uncaught' = (uncaught \/ Escapes(App_AwaitInsideTry))
  /\ UNCHANGED <<impl, searchTerm, results, searched, resultsDiv, nFetch>>
  /\ Rerender
  /\ Remembered(r, resp)

(* ----------------------- the second App component ---------------------- *)
Legacy_SearchFailed == "Search failed"

\* part_000 57: if (!query.trim()) return;
Legacy_Rejects(text) == Falsy(Trim(text))

\* part_000 56-61: handleSearch up to the await (button click or Enter, 82-84)
Legacy_handleSearch ==
  /\ impl = "Legacy"
  /\ IF Legacy_Rejects(searchTerm) THEN ReturnsEarly
     ELSE /\ nScreen + nFetch < MaxRequests
          /\ loading' = TRUE
          /\ error' = Null
          /\ PostScreen(searchTerm)
          /\ intents' = [intents EXCEPT !.submit = @ + 1]
          /\ event' = Event("submit", "", TRUE)
          /\ UNCHANGED <<impl, searchTerm, results, searched, resultsDiv, nFetch, uncaught>>
          /\ Rerender

\* part_000 60-64: the awaited request is inside try { } catch (err) { }
Legacy_AwaitInsideTry == TRUE

\* part_000 62-63, 67-69: the request resolved
Legacy_screenFulfilled(r, resp) ==
  /\ impl = "Legacy"
  /\ ~AxiosRejects(resp)
  /\ results' = resp.matches
  /\ searched' = TRUE
  /\ loading' = FALSE
  /\ ScreenSettled(r, resp)
  /\ UNCHANGED <<impl, searchTerm, error, resultsDiv, nFetch, uncaught>>
  /\ Rerender
  /\ Remembered(r, resp)

\* part_000 64-69: the request rejected
Legacy_screenRejected(r, resp) ==
  /\ impl = "Legacy"
  /\ AxiosRejects(resp)
  /\ error' = Legacy_SearchFailed
  /\ loading' = FALSE
  /\ ScreenSettled(r, resp)
  /\ uncaught' = (uncaught \/ Escapes(Legacy_AwaitInsideTry))
  /\ UNCHANGED <<impl, searchTerm, results, searched, resultsDiv, nFetch>>
  /\ Rerender
  /\ Remembered(r, resp)

(* ------------------------- SearchResults.jsx --------------------------- *)
Detail_FetchFailed == "Failed to fetch entity details"

\* variant: only result.id is read
EntityIdOf_IdOnly(result) == result.id

\* SearchResults.jsx 56, 58: result.entity_id || result.id
EntityIdOf(result) == OrElse(result.entity_id, result.id)

\* SearchResults.jsx 54-68: results.map(...), one card per match, keyed by its
\* identifier, in the order of the array
Cards(ms) == [i \in 1..Len(ms) |-> [key |-> EntityIdOf(ms[i]), result |-> ms[i]]]

\* SearchResults.jsx 35-39: handleResultClick up to the await; card i was clicked
handleResultClick(i) ==
  /\ impl \in {"App", "Legacy"}
  /\ ShowsMatchList
  /\ i \in 1..Len(results)
  /\ nScreen + nFetch < MaxRequests
  /\ dLoading' = TRUE
  /\ dError' = Null
  /\ nFetch' = nFetch + 1
  /\ fetchReqs' = fetchReqs \cup
       {[id |-> nFetch + 1, entityId |-> EntityIdOf(results[i]), live |-> TRUE,
         old |-> FALSE]}
  /\ intents' = [intents EXCEPT !.select = @ + 1]
  /\ origin' = [origin EXCEPT !.loading = FALSE, !.error = FALSE]
  /\ event' = Event("select", "", TRUE)
  /\ UNCHANGED <<impl, searchTerm, results, loading, error, searched, screenReqs, nScreen, posted,
                 resultsDiv, selectedEntity, uncaught, prior>>

\* SearchResults.jsx 38-41: the awaited request is inside try { } catch (err) { }
Detail_AwaitInsideTry == TRUE

\* SearchResults.jsx 40, 44-46: the request resolved; r.live says whether the
\* component that issued it is still mounted
fetchFulfilled(r, resp) ==
  /\ impl \in {"App", "Legacy"}
  /\ ~AxiosRejects(resp)
  /\ fetchReqs' = fetchReqs \ {r}
  /\ IF r.live
     THEN /\ selectedEntity' = <<resp.data>>
          /\ dLoading' = FALSE
          /\ origin' = [origin EXCEPT !.profile = r.old, !.loading = FALSE]
          /\ UNCHANGED dError
     ELSE UNCHANGED <<selectedEntity, dLoading, dError, origin>>
  /\ event' = Event("fetch", resp.kind, r.live)
  /\ UNCHANGED <<impl, searchTerm, results, loading, error, searched, screenReqs, nScreen, posted,
                 resultsDiv, nFetch, uncaught, intents, prior>>

\* variant: no finally block, loading is cleared on success only
fetchRejected_NoFinally(r, resp) ==
  /\ impl \in {"App", "Legacy"}
  /\ AxiosRejects(resp)
  /\ fetchReqs' = fetchReqs \ {r}
  /\ IF r.live
     THEN /\ dError' = Detail_FetchFailed
          /\ origin' = [origin EXCEPT !.error = r.old]
          /\ UNCHANGED <<selectedEntity, dLoading>>
     ELSE UNCHANGED <<selectedEntity, dLoading, dError, origin>>
  /\ uncaught' = (uncaught \/ Escapes(Detail_AwaitInsideTry))
  /\ event' = Event("fetch", resp.kind, r.live)
  /\ UNCHANGED <<impl, searchTerm, results, loading, error, searched, screenReqs, nScreen,
                 posted, resultsDiv, nFetch, intents, prior>>

\* SearchResults.jsx 41-46: the request rejected
fetchRejected(r, resp) ==
  /\ impl \in {"App", "Legacy"}
  /\ AxiosRejects(resp)
  /\ fetchReqs' = fetchReqs \ {r}
  /\ IF r.live
     THEN /\ dError' = Detail_FetchFailed
          /\ dLoading' = FALSE
          /\ origin' = [origin EXCEPT !.error = r.old, !.loading = FALSE]
          /\ UNCHANGED selectedEntity
     ELSE UNCHANGED <<selectedEntity, dLoading, dError, origin>>
  /\ uncaught' = (uncaught \/ Escapes(Detail_AwaitInsideTry))
  /\ event' = Event("fetch", resp.kind, r.live)
  /\ UNCHANGED <<impl, searchTerm, results, loading, error, searched, screenReqs, nScreen, posted,
                 resultsDiv, nFetch, intents, prior>>

(* ----------------------------- index.html ------------------------------ *)
\* index.html 31-35: the trimmed value of #entity-name is empty
Html_Rejects(text) == Falsy(Trim(text))

\* index.html 30-47: performScreen up to the await
performScreen ==
  /\ impl = "Html"
  /\ IF Html_Rejects(searchTerm) THEN ReturnsEarly
     ELSE /\ nScreen + nFetch < MaxRequests
          /\ resultsDiv' = [view |-> "loading", cards |-> <<>>]
          /\ PostScreen(Trim(searchTerm))
          /\ intents' = [intents EXCEPT !.submit = @ + 1]
          /\ event' = Event("submit", "", TRUE)
          /\ UNCHANGED <<impl, searchTerm, results, loading, error, searched,
                         selectedEntity, dLoading, dError, fetchReqs, nFetch, uncaught, origin>>

\* index.html 49-51: fetch resolves on every status; the script throws on !response.ok
Html_Throws(resp) == resp.kind = "network" \/ resp.kind = "status"

\* index.html 40, 74: the await and the throw are inside try { } catch (error) { }
Html_AwaitInsideTry == TRUE

\* index.html 53-72: the body was parsed and rendered
Html_screenFulfilled(r, resp) ==
  /\ impl = "Html"
  /\ ~Html_Throws(resp)
  /\ resultsDiv' = IF resp.total_matches = 0
                   THEN [view |-> "none", cards |-> <<>>]
                   ELSE [view |-> "cards", cards |-> resp.matches]
  /\ ScreenSettled(r, resp)
  /\ UNCHANGED <<impl, searchTerm, results, loading, error, searched,
                 selectedEntity, dLoading, dError, fetchReqs, nFetch, uncaught, origin>>
  /\ Remembered(r, resp)

\* index.html 74-77: the catch block
Html_screenRejected(r, resp) ==
  /\ impl = "Html"
  /\ Html_Throws(resp)
  /\ resultsDiv' = [view |-> "error", cards |-> <<>>]
  /\ ScreenSettled(r, resp)
  /\ uncaught' = (uncaught \/ Escapes(Html_AwaitInsideTry))
  /\ UNCHANGED <<impl, searchTerm, results, loading, error, searched,
                 selectedEntity, dLoading, dError, fetchReqs, nFetch, origin>>
  /\ Remembered(r, resp)

(* --------------------------- specification ----------------------------- *)
Next ==
  \/ \E text \in Inputs : onChange(text)
  \/ App_ClickScan
  \/ App_handleKeyPress
  \/ \E r \in screenReqs, resp \in ScreenResponses : App_screenFulfilled(r, resp)
  \/ \E r \in screenReqs, resp \in ScreenResponses : App_screenRejected(r, resp)
  \/ Legacy_handleSearch
  \/ \E r \in screenReqs, resp \in ScreenResponses : Legacy_screenFulfilled(r, resp)
  \/ \E r \in screenReqs, resp \in ScreenResponses : Legacy_screenRejected(r, resp)
  \/ \E i \in 1..MaxMatches : handleResultClick(i)
  \/ \E r \in fetchReqs : \E resp \in EntityResponses(r.entityId) : fetchFulfilled(r, resp)
  \/ \E r \in fetchReqs : \E resp \in EntityResponses(r.entityId) : fetchRejected(r, resp)
  \/ performScreen
  \/ \E r \in screenReqs, resp \in ScreenResponses : Html_screenFulfilled(r, resp)
  \/ \E r \in screenReqs, resp \in ScreenResponses : Html_screenRejected(r, resp)

Spec == Init /\ [][Next]_vars

\* the page of App.js alone
InitApp == Init /\ impl = "App"

NextApp ==
  \/ \E text \in Inputs : onChange(text)
  \/ App_ClickScan
  \/ App_handleKeyPress
  \/ \E r \in screenReqs, resp \in ScreenResponses : App_screenFulfilled(r, resp)
  \/ \E r \in screenReqs, resp \in ScreenResponses : App_screenRejected(r, resp)
  \/ \E i \in 1..MaxMatches : handleResultClick(i)
  \/ \E r \in fetchReqs : \E resp \in EntityResponses(r.entityId) : fetchFulfilled(r, resp)
  \/ \E r \in fetchReqs : \E resp \in EntityResponses(r.entityId) : fetchRejected(r, resp)

\* a response of an outstanding request, screen or fetchEntity, is delivered
Respond ==
  \/ \E r \in screenReqs, resp \in ScreenResponses :
       App_screenFulfilled(r, resp) \/ App_screenRejected(r, resp)
  \/ \E r \in fetchReqs : \E resp \in EntityResponses(r.entityId) :
       fetchFulfilled(r, resp) \/ fetchRejected(r, resp)

\* App.js where every outstanding request is eventually answered, with success
\* or failure: the promise of axios settles and its continuation runs
FairApp == InitApp /\ [][NextApp]_vars /\ WF_vars(Respond)

\* the same program with the history of outcomes recorded
SpecRecording == InitRecording /\ [][Next]_vars

(* ------------------------------ claims --------------------------------- *)
React == impl \in {"App", "Legacy"}

\* ids of the fetchEntity requests outstanding
FetchIds(reqs) == {r.id : r \in reqs}

\* a screen request that is not the newest one is answered in this step
StaleScreenAnswered == \E r \in screenReqs : r < nScreen /\ r \notin screenReqs'

\* a fetchEntity request that is not the newest one is answered in this step
StaleFetchAnswered ==
  \E r \in fetchReqs : r.id < nFetch /\ r.id \notin FetchIds(fetchReqs')

\* C1: latest query wins. The response of a query that a later submit has
\* superseded changes neither the held results nor the search error, whichever
\* response arrives first.
C1_StaleScreenResponseDiscarded ==
  [][React /\ StaleScreenAnswered => UNCHANGED <<results, error>>]_vars

\* C2: latest selection wins. The response of a selection that a later select
\* has superseded changes neither the held profile nor the detail error.
C2_StaleFetchResponseDiscarded ==
  [][React /\ StaleFetchAnswered => UNCHANGED <<selectedEntity, dError>>]_vars

\* text that is empty or holds whitespace only
IsBlank(text) == \A i \in 1..Len(text) : text[i] \in Whitespace

\* the submit handler of the page runs in this step (button click or Enter)
SubmitStep == App_ClickScan \/ App_handleKeyPress \/ Legacy_handleSearch \/ performScreen

\* C3: a submit of an empty or whitespace-only input, on any of the three pages
\* and from any state, sends no request and changes no state of the session or
\* of the loader; what is displayed stays as it was.
C3_BlankSubmitChangesNothing ==
  [][IsBlank(searchTerm) /\ SubmitStep =>
       /\ UNCHANGED <<results, loading, error, searched, resultsDiv>>
       /\ UNCHANGED <<screenReqs, nScreen, posted, fetchReqs, nFetch>>
       /\ UNCHANGED <<selectedEntity, dLoading, dError>>
       /\ DisplayedMatches' = DisplayedMatches]_vars

\* a whitespace-only submit was turned away while a match list was on screen
C3_Witness ==
  /\ event.what = "rejected"
  /\ searchTerm = <<" ">>
  /\ Len(DisplayedMatches) > 0

\* C4: while the screen request of the newest submit is outstanding, App.js
\* displays no match list (a list on screen then belongs to an earlier query).
C4_NoListWhileNewestOutstanding ==
  impl = "App" /\ nScreen \in screenReqs => ~ShowsMatchList

\* the loader of SearchResults.jsx holds nothing: no profile, no error, not loading
Unselected == selectedEntity = <<>> /\ ~dLoading /\ ~Truthy(dError)

\* C5: in App.js an accepted submit leaves the loader Unselected, and in no
\* state does the loader hold a profile, an error or a loading flag that dates
\* from a selection made before the newest submit; no request of such a
\* selection can still reach the loader.
C5_SubmitResetsLoader ==
  impl = "App" =>
    /\ event.what = "submit" => Unselected
    /\ selectedEntity # <<>> => ~origin.profile
    /\ Truthy(dError) => ~origin.error
    /\ dLoading => ~origin.loading
    /\ \A r \in fetchReqs : r.old => ~r.live

\* the profile of a selection made before the second submit arrived after it,
\* at a component that is gone, and nothing is held
C5_Witness ==
  /\ impl = "App"
  /\ nScreen = 2
  /\ event = Event("fetch", "ok", FALSE)
  /\ Unselected

\* a fetchEntity request is answered in this step
FetchAnswered == nFetch' = nFetch /\ FetchIds(fetchReqs') # FetchIds(fetchReqs)

\* C6: a failing detail fetch changes the loader only: results, error, loading
\* and searched of the session keep their values and the same matches stay on
\* screen in the same order; the loader shows its error and stops loading.
C6_DetailFailureIsolated ==
  [][React /\ FetchAnswered /\ event'.kind # "ok" =>
       /\ UNCHANGED <<results, loading, error, searched>>
       /\ DisplayedMatches' = DisplayedMatches
       /\ event'.live => Len(DisplayedMatches') > 0 /\ ShowsDetailError' /\ ~dLoading']_vars

\* a detail fetch failed under a list of two matches, which is still on screen
C6_Witness ==
  /\ React
  /\ event = Event("fetch", "status", TRUE)
  /\ Len(DisplayedMatches) = 2
  /\ ShowsDetailError

\* C7: every failed screen request (no response, or a non-2xx status) leaves
\* App.js and index.html showing the error, not loading and with no match list;
\* every failed fetchEntity request leaves a mounted loader with its error set
\* and not loading; no exception leaves a handler.
C7_FailuresBecomeFailed ==
  /\ ~uncaught
  /\ impl \in {"App", "Html"} /\ event.what = "screen" /\ event.kind # "ok" =>
       /\ ShowsError /\ ~ShowsLoading /\ ~ShowsMatchList /\ DisplayedMatches = <<>>
       /\ impl = "App" => error = App_SearchFailed /\ ~loading
  /\ React /\ event.what = "fetch" /\ event.kind # "ok" /\ event.live =>
       Truthy(dError) /\ ~dLoading

\* HTTP 500 answered a search in App.js and the error is on screen
C7_Witness ==
  /\ impl = "App"
  /\ event = Event("screen", "status", TRUE)
  /\ ShowsError

\* C8: as many screen requests were issued as submits were accepted, and as
\* many fetchEntity requests as matches were selected: a failed request is
\* never sent again.
C8_OneRequestPerIntent ==
  /\ nScreen = intents.submit
  /\ nFetch = intents.select
  /\ screenReqs \subseteq 1..nScreen
  /\ FetchIds(fetchReqs) \subseteq 1..nFetch

\* two searches failed and nothing is outstanding
C8_Witness ==
  /\ event = Event("screen", "network", TRUE)
  /\ intents.submit = 2
  /\ screenReqs = {}

\* the newest fetchEntity request asks for identifier v
AsksFor(v) == \E r \in fetchReqs' : r.id = nFetch' /\ r.entityId = v

\* C9: selecting a displayed match asks for its identifier, whether the payload
\* carries it under `id` or under `entity_id`; every displayed match has one.
C9_EitherFieldSelects ==
  [][/\ React /\ ShowsMatchList =>
          \A i \in 1..Len(results) : EntityIdOf(results[i]) = IdentOf(results[i])
     /\ \A i \in 1..MaxMatches :
          handleResultClick(i) => AsksFor(IdentOf(results[i]))]_vars

\* a match whose identifier is under `entity_id` was selected, and the request
\* outstanding is for that identifier
C9_Witness ==
  /\ event.what = "select"
  /\ \E r \in fetchReqs : \E i \in 1..Len(results) :
       /\ r.id = nFetch
       /\ results[i].id = Undefined
       /\ results[i].entity_id = r.entityId

\* C10: right after a select, the loader holds no profile of another entity
\* than the one selected.
C10_SelectDiscardsProfile ==
  React /\ event.what = "select" /\ selectedEntity # <<>> =>
    \E r \in fetchReqs : r.id = nFetch /\ r.entityId = selectedEntity[1].id

\* C11: every screen request carries as entity_name a text that is non-empty
\* and trimmed: the entity_name of the newest request equals its own trim, so a
\* name typed with whitespace around it is sent without the whitespace.
C11_EntityNameTrimmed ==
  posted # <<>> => posted[1] # <<>> /\ posted[1] = Trim(posted[1])

\* a submit of a text that is non-empty after trimming
AcceptedSubmit == SubmitStep /\ ~IsBlank(searchTerm)

\* C12: in both App components a submit of a text that is non-empty after
\* trimming, from any session state, leaves loading set, the search error
\* cleared and the held results cleared, and issues exactly one screen request;
\* such a submit can be made in every state (no session state is terminal).
C12_SubmitMovesToSearching ==
  [][/\ React /\ ~IsBlank(searchTerm) /\ nScreen + nFetch < MaxRequests =>
          ENABLED SubmitStep
     /\ React /\ AcceptedSubmit =>
          /\ loading'
          /\ ~Truthy(error')
          /\ results' = <<>>
          /\ nScreen' = nScreen + 1
          /\ screenReqs' = screenReqs \cup {nScreen'}]_vars

\* C13: when App.js or index.html has applied a successful screen response, it
\* holds as many matches as the response's total_matches says, and it shows
\* the "no matches" message exactly when the response carried zero matches,
\* counted by total_matches or by the length of matches; otherwise it shows
\* the matches of the response.
C13_NoMatchesIffZero ==
  [][\A r \in screenReqs, resp \in ScreenResponses :
       App_screenFulfilled(r, resp) \/ Html_screenFulfilled(r, resp) =>
         /\ Len(IF impl = "App" THEN results' ELSE resultsDiv'.cards) = resp.total_matches
         /\ ShowsNoMatches' <=> resp.total_matches = 0
         /\ ShowsNoMatches' <=> Len(resp.matches) = 0
         /\ ShowsMatchList' <=> Len(resp.matches) > 0]_vars

\* C14: when a successful screen response has been applied, the held match
\* sequence is the response's matches, element by element in the response's
\* order, whatever was held before; the list rendered from it has one card per
\* match of the response, card i carrying the identifier of match i.
C14_ResultsReplacedInOrder ==
  React /\ event.what = "screen" /\ event.kind = "ok" =>
    /\ results = event.matches
    /\ ShowsMatchList =>
         /\ Len(Cards(DisplayedMatches)) = Len(event.matches)
         /\ \A i \in 1..Len(event.matches) :
              /\ Cards(DisplayedMatches)[i].key = IdentOf(event.matches[i])
              /\ Cards(DisplayedMatches)[i].result = event.matches[i]

\* the second search of App.js was answered with E2 before E1, and the cards on
\* screen are E2's, then E1's
C14_Witness ==
  /\ impl = "App"
  /\ event.what = "screen" /\ event.kind = "ok"
  /\ intents.submit = 2
  /\ screenReqs = {}
  /\ Len(Cards(DisplayedMatches)) = 2
  /\ Cards(DisplayedMatches)[1].key = "E2"
  /\ Cards(DisplayedMatches)[2].key = "E1"

\* the fetchEntity requests issued in this step
NewFetches == {r \in fetchReqs' : r.id > nFetch}

\* C15: a step issues a fetchEntity request only if it is a select: then it
\* issues exactly one, for the identifier of a match that is on screen when the
\* card is clicked; a step that answers a screen request, or a submit, issues
\* none.
C15_FetchOnlyOnSelect ==
  [][/\ nFetch' # nFetch \/ NewFetches # {} =>
          /\ \E i \in 1..MaxMatches : handleResultClick(i)
          /\ nFetch' = nFetch + 1
          /\ intents'.select = intents.select + 1
          /\ Cardinality(NewFetches) = 1
          /\ \A n \in NewFetches : \E i \in 1..Len(DisplayedMatches) :
               n.entityId = IdentOf(DisplayedMatches[i])
     /\ nScreen' # nScreen \/ screenReqs' # screenReqs =>
          nFetch' = nFetch /\ NewFetches = {}]_vars

\* two matches are on screen, the second was selected, and the only request
\* issued asks for the second's identifier
C15_Witness ==
  /\ event.what = "select"
  /\ Len(DisplayedMatches) = 2
  /\ nFetch = 1
  /\ \E r \in fetchReqs :
       r.entityId = IdentOf(DisplayedMatches[2]) /\ fetchReqs = {r}

\* the newest search, submitted with nothing outstanding, is answered with
\* success in this step
NewestAnsweredOk == screenReqs = {nScreen} /\ screenReqs' = {} /\ event'.kind = "ok"

\* C16: when a search is answered with success, and the same text is then
\* submitted again with nothing outstanding and answered with the same matches,
\* the session state, the content of the results area and the rendered match
\* list after the second response are those after the first.
C16_SameQuerySameOutcome ==
  [][NewestAnsweredOk /\ prior.held # <<>> /\ prior'.held # <<>>
       /\ prior'.held[1].matches = prior.held[1].matches =>
         /\ session' = prior.held[1].session
         /\ resultsDiv' = prior.held[1].resultsDiv
         /\ DisplayedMatches' = prior.held[1].shown]_vars

\* C17: in App.js loading is set exactly while a screen request is outstanding,
\* and at most one screen request is outstanding at any time.
C17_LoadingIffOutstanding ==
  impl = "App" =>
    /\ loading <=> screenReqs # {}
    /\ Cardinality(screenReqs) <= 1

\* C18: in App.js the match list is on screen only if loading is false, error
\* is empty and results is non-empty; it is never on screen together with the
\* loading indicator or the search error, and the "no matches" message is never
\* on screen together with the match list, the loading indicator or the error.
C18_RenderingExclusive ==
  impl = "App" =>
    /\ ShowsMatchList => ~loading /\ error = "" /\ Len(results) > 0
    /\ ~(ShowsMatchList /\ ShowsLoading)
    /\ ~(ShowsMatchList /\ ShowsError)
    /\ ShowsNoMatches => ~ShowsMatchList /\ ~ShowsLoading /\ ~ShowsError

\* App.js holds matches and an error at once (a superseded search failed after
\* the newest one succeeded): the error is on screen and the list is not
C18_Witness ==
  /\ impl = "App"
  /\ Len(results) > 0
  /\ ShowsError
  /\ ~ShowsMatchList
  /\ ~loading

\* every request was answered and neither the session nor the loader is loading
Settled ==
  /\ screenReqs = {} /\ fetchReqs = {}
  /\ ~ShowsLoading /\ ~loading
  /\ ~dLoading /\ ~ShowsDetailLoading

\* the page shows the outcome of the last search: its error, "no matches" or
\* the match list; a loader that was answered while on screen shows a profile
\* or its error
ShowsOutcome ==
  /\ nScreen > 0 => ShowsError \/ ShowsNoMatches \/ ShowsMatchList
  /\ event.what = "fetch" /\ event.live /\ ShowsMatchList =>
       ShowsProfile \/ ShowsDetailError

\* C19: when every outstanding request is eventually answered, the page
\* eventually reaches, and from then on stays in, states in which no request is
\* outstanding, the session is not loading and shows the outcome of a search
\* (Results or Failed), and the loader is not loading.
C19_EventuallySettled == <>[](Settled /\ ShowsOutcome)

\* a search failed after a detail fetch had been started under an earlier list:
\* everything is answered and nothing is loading
C19_Witness ==
  /\ Settled
  /\ nScreen = 2
  /\ nFetch = 1
  /\ event = Event("fetch", "ok", FALSE)
  /\ ShowsError

====
